---- MODULE Spec2Model ----
(***************************************************************************)
(* Token-bucket RateLimiter (src/src/integrations/itchio/rate-limiter.js)  *)
(* and the ItchioClient request executor (src/unnamed/part_000).           *)
(*                                                                         *)
(* Time is Date.now() in whole milliseconds.  The token count is a real    *)
(* number in the code; every value it takes is a multiple of 1/windowMs    *)
(* (refill adds timePassed * maxTokens / windowMs, a grant subtracts 1),   *)
(* so the model keeps tokens * windowMs as an integer (floating-point      *)
(* rounding is not modelled).                                              *)
(***************************************************************************)
EXTENDS Integers, Sequences, FiniteSets, TLC

\* ---- bounds of the model ------------------------------------------------
MaxTime == 3            \* Date.now() ranges over 0..MaxTime
MaxCalls == 3           \* acquire() invocations per behaviour
MaxRejected == 1        \* cap of stats.rejectedRequests
MaxMaxRetries == 2      \* largest config.maxRetries of the retry specification

\* the configurations new RateLimiter(maxRequests, windowMs) is constructed with
Capacities == {1, 2}
Windows == {2, 3}

\* the requestIds request() hands out (++this.requestCounter)
RequestIds == {1, 2}

VARIABLES
    now,            \* Date.now()
    maxTokens,      \* this.maxTokens
    windowMs,       \* this.windowMs
    tokens,         \* this.tokens * windowMs
    lastRefill,     \* this.lastRefill
    queue,          \* this.queue: timeout ids of the suspended acquire() calls
    stats,          \* this.stats
    calls,          \* the acquire() invocations, in invocation order; the
                    \* timeout id of a suspended call is its index
    armed,          \* timeout ids whose setTimeout is pending (not fired, not cleared)
    lastOp,         \* the operation that made the last step, and what it returned
    epochStart,     \* number of acquire() invocations made before the last reset()
    preReset,       \* calls that were suspended when a reset() ran
    fresh,          \* nothing but tryAcquire() since construction / reset(), no time elapsed
    taLog,          \* results of the tryAcquire() calls made while fresh
    config,         \* ItchioClient.config
    requestCounter, \* ItchioClient.requestCounter
    activeRequests, \* ItchioClient.activeRequests: requestId -> the attempt whose
                    \* AbortController is stored
    req,            \* the request() invocations, indexed by requestId
    sendLog         \* Date.now() of every fetch() call, in call order

limiterVars == <<maxTokens, windowMs, tokens, lastRefill, queue, stats, calls,
                 armed, epochStart, preReset, fresh, taLog>>
clientVars == <<config, requestCounter, activeRequests, req, sendLog>>
vars == <<now, limiterVars, lastOp, clientVars>>

Min(a, b) == IF a <= b THEN a ELSE b
Max(a, b) == IF a >= b THEN a ELSE b

\* ---- RateLimiter ----------------------------------------------------------
ZeroStats == [totalRequests |-> 0, totalWaitTime |-> 0, maxWaitTime |-> 0,
              rejectedRequests |-> 0]

\* one token, in the model's unit
One == windowMs

\* the full bucket
Full == maxTokens * windowMs

\* _refillTokens: min(maxTokens, tokens + timePassed * refillRate)
RefillTokens(tok, last, t) == Min(Full, tok + (t - last) * maxTokens)

\* mutant of HasToken: a strict comparison
HasTokenStrict(tok) == tok > One

\* the test `this.tokens >= 1`
HasToken(tok) == tok >= One

\* _getTimeUntilNextToken: ceil((1 - tokens) / refillRate)
TimeUntilNextToken(tok) ==
    IF HasToken(tok) THEN 0
    ELSE ((One - tok) + maxTokens - 1) \div maxTokens

\* mutant of UpdateStats: the grant is not counted
UpdateStatsWaitOnly(s, waitTime) ==
    [s EXCEPT !.totalWaitTime = @ + waitTime,
              !.maxWaitTime = Max(@, waitTime)]

\* _updateStats
UpdateStats(s, waitTime) ==
    [s EXCEPT !.totalRequests = @ + 1,
              !.totalWaitTime = @ + waitTime,
              !.maxWaitTime = Max(@, waitTime)]

\* mutant of RemoveFromQueue: the fired timer's id stays in the queue
RemoveFromQueueNothing(q, id) == q

\* queue.indexOf(id) > -1 ? queue.splice(index, 1)
RemoveFromQueue(q, id) == SelectSeq(q, LAMBDA x : x # id)

InQueue(q) == {q[i] : i \in DOMAIN q}

Op(name, id, ret) == [op |-> name, id |-> id, ret |-> ret]

\* a step that returns nothing to a caller
Step == Op("step", 0, "none")

InitLimiter ==
    /\ maxTokens \in Capacities
    /\ windowMs \in Windows
    /\ tokens = maxTokens * windowMs
    /\ lastRefill = 0
    /\ queue = <<>>
    /\ stats = ZeroStats
    /\ calls = <<>>
    /\ armed = {}
    /\ epochStart = 0
    /\ preReset = {}
    /\ fresh = TRUE
    /\ taLog = <<>>

\* acquire(), up to its first suspension: refill, then either the immediate
\* grant or _waitForToken's setTimeout and queue.push
AcquireL ==
    LET id == Len(calls) + 1
        t  == RefillTokens(tokens, lastRefill, now)
    IN  /\ Len(calls) < MaxCalls
        /\ lastRefill' = now
        /\ IF HasToken(t)
           THEN /\ tokens' = t - One
                /\ stats' = UpdateStats(stats, 0)
                /\ calls' = Append(calls, [at |-> now, state |-> "granted",
                                           deadline |-> now, grantedAt |-> now])
                /\ UNCHANGED <<queue, armed>>
           ELSE /\ tokens' = t
                /\ calls' = Append(calls, [at |-> now, state |-> "waiting",
                                           deadline |-> now + TimeUntilNextToken(t),
                                           grantedAt |-> -1])
                /\ queue' = Append(queue, id)
                /\ armed' = armed \cup {id}
                /\ UNCHANGED stats
        /\ fresh' = FALSE
        /\ taLog' = <<>>
        /\ UNCHANGED <<maxTokens, windowMs, epochStart, preReset>>

\* the setTimeout callback of _waitForToken, and the _updateStats(waitTime)
\* that follows the resolved promise in acquire()
WaiterFireL(id) ==
    LET t == RefillTokens(tokens, lastRefill, now)
    IN  /\ id \in armed
        /\ now >= calls[id].deadline
        /\ lastRefill' = now
        /\ queue' = RemoveFromQueue(queue, id)
        /\ tokens' = t - One
        /\ stats' = UpdateStats(stats, now - calls[id].at)
        /\ calls' = [calls EXCEPT ![id].state = "granted", ![id].grantedAt = now]
        /\ armed' = armed \ {id}
        /\ fresh' = FALSE
        /\ taLog' = <<>>
        /\ UNCHANGED <<maxTokens, windowMs, epochStart, preReset>>

\* mutant of TryAcquireL: a refused tryAcquire() subtracts a token as well
TryAcquireCharging ==
    LET t == RefillTokens(tokens, lastRefill, now)
    IN  /\ lastRefill' = now
        /\ IF HasToken(t)
           THEN /\ tokens' = t - One
                /\ stats' = UpdateStats(stats, 0)
                /\ lastOp' = Op("tryAcquire", 0, "true")
                /\ taLog' = IF fresh THEN Append(taLog, TRUE) ELSE taLog
           ELSE /\ stats.rejectedRequests < MaxRejected
                /\ tokens' = t - One
                /\ stats' = [stats EXCEPT !.rejectedRequests = @ + 1]
                /\ lastOp' = Op("tryAcquire", 0, "false")
                /\ taLog' = IF fresh THEN Append(taLog, FALSE) ELSE taLog
        /\ UNCHANGED <<maxTokens, windowMs, queue, calls, armed, epochStart,
                       preReset, fresh>>

\* tryAcquire()
TryAcquireL ==
    LET t == RefillTokens(tokens, lastRefill, now)
    IN  /\ lastRefill' = now
        /\ IF HasToken(t)
           THEN /\ tokens' = t - One
                /\ stats' = UpdateStats(stats, 0)
                /\ lastOp' = Op("tryAcquire", 0, "true")
                /\ taLog' = IF fresh THEN Append(taLog, TRUE) ELSE taLog
           ELSE /\ stats.rejectedRequests < MaxRejected
                /\ tokens' = t
                /\ stats' = [stats EXCEPT !.rejectedRequests = @ + 1]
                /\ lastOp' = Op("tryAcquire", 0, "false")
                /\ taLog' = IF fresh THEN Append(taLog, FALSE) ELSE taLog
        /\ UNCHANGED <<maxTokens, windowMs, queue, calls, armed, epochStart,
                       preReset, fresh>>

\* mutant of IsThrottlingL: the answer is computed without _refillTokens()
IsThrottlingNoRefill ==
    /\ lastOp' = Op("isThrottling", 0,
                    IF (~HasToken(tokens)) \/ Len(queue) > 0 THEN "true" ELSE "false")
    /\ UNCHANGED <<maxTokens, windowMs, tokens, lastRefill, queue, stats, calls,
                   armed, epochStart, preReset, fresh, taLog>>

\* isThrottling()
IsThrottlingL ==
    LET t == RefillTokens(tokens, lastRefill, now)
    IN  /\ tokens' = t
        /\ lastRefill' = now
        /\ lastOp' = Op("isThrottling", 0,
                        IF (~HasToken(t)) \/ Len(queue) > 0 THEN "true" ELSE "false")
        /\ UNCHANGED <<maxTokens, windowMs, queue, stats, calls, armed,
                       epochStart, preReset, fresh, taLog>>

\* the object getStats() returns; the two quotients are kept as numerator
\* and denominator, availableTokens is Math.floor(this.tokens)
StatsSnapshot ==
    [availableTokens  |-> tokens \div windowMs,
     maxTokens        |-> maxTokens,
     queueLength      |-> Len(queue),
     totalRequests    |-> stats.totalRequests,
     avgWaitTime      |-> IF stats.totalRequests > 0
                          THEN [num |-> stats.totalWaitTime, den |-> stats.totalRequests]
                          ELSE [num |-> 0, den |-> 1],
     maxWaitTime      |-> stats.maxWaitTime,
     rejectedRequests |-> stats.rejectedRequests,
     utilizationRate  |-> IF stats.totalRequests > 0
                          THEN [num |-> (Full - tokens) * 100, den |-> Full]
                          ELSE [num |-> 0, den |-> 1]]

\* mutant of GetStatsL: getStats() calls _refillTokens() before it reports
GetStatsRefilling ==
    /\ tokens' = RefillTokens(tokens, lastRefill, now)
    /\ lastRefill' = now
    /\ lastOp' = Op("getStats", tokens' \div windowMs, "none")
    /\ UNCHANGED <<maxTokens, windowMs, queue, stats, calls, armed,
                   epochStart, preReset, fresh, taLog>>

\* getStats(); lastOp keeps the availableTokens of the returned object
GetStatsL ==
    /\ lastOp' = Op("getStats", StatsSnapshot.availableTokens, "none")
    /\ UNCHANGED <<maxTokens, windowMs, tokens, lastRefill, queue, stats, calls,
                   armed, epochStart, preReset, fresh, taLog>>

\* what getTimeUntilRefill() returns when called at Date.now() = now
TimeUntilRefill == Max(0, windowMs - (now - lastRefill))

\* getTimeUntilRefill()
GetTimeUntilRefillL ==
    /\ lastOp' = Op("getTimeUntilRefill", TimeUntilRefill, "none")
    /\ UNCHANGED <<maxTokens, windowMs, tokens, lastRefill, queue, stats, calls,
                   armed, epochStart, preReset, fresh, taLog>>

\* mutant of ClearedByReset: reset() empties the queue without clearTimeout
ClearedByResetNone == {}

\* the timeouts reset() clears: those whose ids are in this.queue
ClearedByReset == InQueue(queue)

\* reset()
ResetL ==
    /\ armed' = armed \ ClearedByReset
    /\ tokens' = Full
    /\ lastRefill' = now
    /\ queue' = <<>>
    /\ stats' = ZeroStats
    /\ epochStart' = Len(calls)
    /\ preReset' = preReset \cup {i \in DOMAIN calls : calls[i].state = "waiting"}
    /\ fresh' = TRUE
    /\ taLog' = <<>>
    /\ UNCHANGED <<maxTokens, windowMs, calls>>

\* ---- the limiter used directly by its callers ----------------------------
Tick ==
    /\ now < MaxTime
    /\ now' = now + 1
    /\ fresh' = FALSE
    /\ taLog' = <<>>
    /\ lastOp' = Step
    /\ UNCHANGED <<maxTokens, windowMs, tokens, lastRefill, queue, stats, calls,
                   armed, epochStart, preReset>>
    /\ UNCHANGED clientVars

Acquire ==
    /\ AcquireL
    /\ lastOp' = Step
    /\ UNCHANGED <<now, clientVars>>

WaiterFire(id) ==
    /\ WaiterFireL(id)
    /\ lastOp' = Step
    /\ UNCHANGED <<now, clientVars>>

TryAcquire ==
    /\ TryAcquireL
    /\ UNCHANGED <<now, clientVars>>

IsThrottling ==
    /\ IsThrottlingL
    /\ UNCHANGED <<now, clientVars>>

GetStats ==
    /\ GetStatsL
    /\ UNCHANGED <<now, clientVars>>

GetTimeUntilRefill ==
    /\ GetTimeUntilRefillL
    /\ UNCHANGED <<now, clientVars>>

Reset ==
    /\ ResetL
    /\ lastOp' = Op("reset", 0, "none")
    /\ UNCHANGED <<now, clientVars>>

\* this.config = { ...DEFAULT_CONFIG, ...config }: a caller's configuration
\* with small delays (ms), so that the timers fall inside 0..MaxTime
SmallConfig == [timeout |-> 2, maxRetries |-> 1, retryDelay |-> 1,
                retryMultiplier |-> 2, maxRetryDelay |-> 3]

\* new ItchioClient(auth, config)
InitClient ==
    /\ config = SmallConfig
    /\ requestCounter = 0
    /\ activeRequests = <<>>
    /\ req = <<>>
    /\ sendLog = <<>>

Init ==
    /\ now = 0
    /\ InitLimiter
    /\ InitClient
    /\ lastOp = Op("init", 0, "none")

Next ==
    \/ Tick
    \/ Acquire
    \/ \E id \in 1..MaxCalls : WaiterFire(id)
    \/ TryAcquire
    \/ IsThrottling
    \/ Reset

Spec == Init /\ [][Next]_vars

\* ---- the limiter with its read-only queries -------------------------------
\* a limiter of one token per window, its callers also reading getStats()
\* and getTimeUntilRefill()
InitQueries ==
    /\ Init
    /\ maxTokens = 1

NextQueries ==
    \/ Tick
    \/ Acquire
    \/ \E id \in 1..MaxCalls : WaiterFire(id)
    \/ TryAcquire
    \/ IsThrottling
    \/ Reset
    \/ GetStats
    \/ GetTimeUntilRefill

SpecQueries == InitQueries /\ [][NextQueries]_vars

\* ---- ItchioClient ----------------------------------------------------------

\* the HTTP statuses the transport answers with
Statuses == {200, 404, 429, 503}

\* the errors an attempt can throw
NoError == [name |-> "none", status |-> 0]
AbortError == [name |-> "AbortError", status |-> 0]
FetchError == [name |-> "TypeError", status |-> 0]
ApiError(status) == [name |-> "ItchioApiError", status |-> status]
RateLimitError == [name |-> "ItchioRateLimitError", status |-> 429]
\* response.json() rejects on a body that is not JSON
ParseError == [name |-> "SyntaxError", status |-> 0]
\* JSON.stringify(options.body) throws on a body it cannot serialise
StringifyError == [name |-> "TypeError", status |-> 0]

\* instanceof ItchioApiError (ItchioRateLimitError extends it)
IsApiError(e) == e.name \in {"ItchioApiError", "ItchioRateLimitError"}

\* mutant of ShouldNotRetry: client errors are retried like server errors
ShouldNotRetryClientRetried(e, attempt) ==
    \/ attempt >= config.maxRetries
    \/ e.name = "AbortError"

\* mutant of ShouldNotRetry: an AbortError is retried like a network failure
ShouldNotRetryAbortRetried(e, attempt) ==
    \/ attempt >= config.maxRetries
    \/ (IsApiError(e) /\ e.status >= 400 /\ e.status < 500 /\ e.status # 429)

\* mutant of ShouldNotRetry: server errors are not retried either
ShouldNotRetryServerErrors(e, attempt) ==
    \/ attempt >= config.maxRetries
    \/ e.name = "AbortError"
    \/ (IsApiError(e) /\ e.status >= 400 /\ e.status # 429)

\* _shouldNotRetry(error, attempt)
ShouldNotRetry(e, attempt) ==
    \/ attempt >= config.maxRetries
    \/ e.name = "AbortError"
    \/ (IsApiError(e) /\ e.status >= 400 /\ e.status < 500 /\ e.status # 429)

\* _wrapError(error): the name of the error request() rejects with
WrapError(e) ==
    IF IsApiError(e) THEN e.name
    ELSE IF e.name = "AbortError" THEN "ItchioTimeoutError"
    ELSE "ItchioNetworkError"

\* the retry-after header of a response: absent, integer seconds, an HTTP
\* date (its time in ms), or a value that is neither
NoHeader == [kind |-> "none", v |-> 0]
SecondsHeader(n) == [kind |-> "seconds", v |-> n]
DateHeader(t) == [kind |-> "date", v |-> t]
OtherHeader == [kind |-> "other", v |-> 0]

\* mutant of GetRetryAfter: the seconds are taken for milliseconds
GetRetryAfterNoScale(h) ==
    IF h.kind = "seconds" THEN h.v
    ELSE IF h.kind = "date" THEN Max(0, h.v - now)
    ELSE config.retryDelay

\* _getRetryAfter(response)
GetRetryAfter(h) ==
    IF h.kind = "seconds" THEN h.v * 1000
    ELSE IF h.kind = "date" THEN Max(0, h.v - now)
    ELSE config.retryDelay

\* the bodies a response carries: a JSON object without errors, a JSON object
\* with a non-empty errors array, or bytes response.json() cannot parse
ResponseBodies == {"object", "errors", "malformed"}

\* response.ok
IsOk(status) == status >= 200 /\ status < 300

\* mutant of ParseResponse: the errors field of an ok response is not looked at
ParseResponseStatusOnly(status, body) ==
    IF body = "malformed" THEN ParseError
    ELSE IF ~IsOk(status) THEN ApiError(status)
    ELSE NoError

\* _parseResponse(response): the error it throws, NoError when it returns data
ParseResponse(status, body) ==
    IF body = "malformed" THEN ParseError
    ELSE IF ~IsOk(status) THEN ApiError(status)
    ELSE IF body = "errors" THEN ApiError(status)
    ELSE NoError

\* entries of a request's history: what the transport did to an attempt, and
\* the _sleep(ms) calls
Answer(what, status, header, body) ==
    [k |-> what, status |-> status, header |-> header, body |-> body, ms |-> 0]
Slept(what, ms) ==
    [k |-> what, status |-> 0, header |-> NoHeader, body |-> "", ms |-> ms]


\* mutant of RegistryDelete: the finally block leaves the handle in the map
RegistryDeleteNothing(reg, id) == reg

\* activeRequests.delete(id)
RegistryDelete(reg, id) == [k \in DOMAIN reg \ {id} |-> reg[k]]

\* mutant of RegistrySet: the controller is never stored
RegistrySetNothing(reg, id, attempt) == reg

\* activeRequests.set(id, controller)
RegistrySet(reg, id, attempt) == (id :> attempt) @@ reg

\* the signal fetch() is given when the caller supplied no options.signal:
\* controller.signal itself, nothing is merged
NoMerged == [aborted |-> FALSE, listens |-> {}]

\* the for loop of _mergeSignals over srcs from index i on; listens: the
\* sources an abort listener has been added to
RECURSIVE MergeLoop(_, _, _)
MergeLoop(srcs, i, listens) ==
    IF i > Len(srcs) THEN [aborted |-> FALSE, listens |-> listens]
    ELSE IF srcs[i].aborted THEN [aborted |-> TRUE, listens |-> listens]
    ELSE MergeLoop(srcs, i + 1, listens \cup {srcs[i].name})

\* mutant of MergeSignals: signal.aborted is not tested, listeners only
MergeSignalsListenOnly(srcs) ==
    [aborted |-> FALSE, listens |-> {srcs[i].name : i \in DOMAIN srcs}]

\* _mergeSignals(...signals)
MergeSignals(srcs) == MergeLoop(srcs, 1, {})

\* mutant of Forward: the listener does nothing
ForwardNothing(m, src) == m

\* the { once: true } listener of source src runs: controller.abort()
Forward(m, src) ==
    IF src \in m.listens
    THEN [aborted |-> TRUE, listens |-> m.listens \ {src}]
    ELSE m

\* one request() call; canBuild: JSON.stringify accepts options.body;
\* signal: options.signal ("none" when the caller gave none)
\* mutant of NextRequestId: the counter is read before it is incremented, so
\* a request() gets the identifier of the one before it
NextRequestIdReused == IF requestCounter = 0 THEN 1 ELSE requestCounter

\* const requestId = ++this.requestCounter
NextRequestId == requestCounter + 1

\* the JavaScript value undefined; options.body of a request made without one
Undefined == [t |-> "undefined", v |-> 0]

NewRequest(granted, canBuild, signal) ==
    [requestId |-> NextRequestId,
     body |-> Undefined,
     retryAfter |-> -1,
     pc |-> IF granted THEN "ready" ELSE "acquiring",
     attempt |-> 0, retryDelay |-> config.retryDelay,
     timeoutAt |-> -1, wakeAt |-> -1, abort |-> "none",
     lastError |-> NoError, result |-> "none", sends |-> 0,
     cancelPhase |-> "none", sendsAtCancel |-> -1, removedAt |-> -1,
     canBuild |-> canBuild, hist |-> <<>>,
     signal |-> signal, merged |-> NoMerged]

\* mutant of Catch: the finally block leaves the attempt's timeout timer armed
CatchKeepingTimer(r, e) ==
    IF ShouldNotRetry(e, r.attempt)
    THEN [r EXCEPT !.pc = "rejected", !.lastError = e, !.result = WrapError(e)]
    ELSE [r EXCEPT !.pc = "backoff", !.lastError = e,
                   !.wakeAt = now + r.retryDelay,
                   !.hist = Append(@, Slept("backoff", r.retryDelay))]

\* the catch block of _executeWithRetry (lines 716-742), entered after the
\* finally block: terminal throw, or the backoff sleep
Catch(r, e) ==
    IF ShouldNotRetry(e, r.attempt)
    THEN [r EXCEPT !.pc = "rejected", !.lastError = e, !.result = WrapError(e),
                   !.timeoutAt = -1]
    ELSE [r EXCEPT !.pc = "backoff", !.lastError = e,
                   !.wakeAt = now + r.retryDelay,
                   !.timeoutAt = -1,
                   !.hist = Append(@, Slept("backoff", r.retryDelay))]

\* the head of one loop iteration (lines 657-675): a new controller and its
\* timeout timer, then fetch()
StartAttempt(r) ==
    LET m == IF r.signal = "none" THEN NoMerged
             ELSE MergeSignals(<< [name |-> "user", aborted |-> r.signal = "aborted"],
                                  [name |-> "controller", aborted |-> FALSE] >>)
    IN  [r EXCEPT !.pc = "sending",
                  !.timeoutAt = now + config.timeout,
                  !.merged = m,
                  !.abort = IF m.aborted THEN "user" ELSE "none",
                  !.sends = @ + 1]

\* JavaScript runs one callback to completion and then the promise continuations
\* it made runnable, before any timer callback or transport event: a
\* continuation is pending for a request whose acquire() resolved at once and
\* for one whose fetch() was aborted by cancelRequest/cancelAllRequests
ContinuationPending ==
    \E id \in DOMAIN req :
        \/ req[id].pc = "ready"
        \/ req[id].pc = "sending" /\ req[id].abort # "none"

\* Date.now() advances; the synchronous code and its continuations take no time
TickOfClient ==
    /\ ~ContinuationPending
    /\ Tick

\* request(), up to the await of rateLimiter.acquire()
RequestWith(canBuild, signal) ==
    /\ requestCounter + 1 \in RequestIds
    /\ AcquireL
    /\ requestCounter' = requestCounter + 1
    /\ req' = Append(req, NewRequest(calls'[Len(calls')].state = "granted",
                                      canBuild, signal))
    /\ lastOp' = Step
    /\ UNCHANGED <<now, config, activeRequests, sendLog>>

\* request() with options the request can be built from
Request == RequestWith(TRUE, "none")

\* request() after the await (lines 633-640): _buildUrl and
\* _buildRequestOptions run outside every try block, so what they throw
\* rejects request() as it is; otherwise _executeWithRetry starts attempt 0
\* (activeRequests.set, fetch)
EnterExecutor(id) ==
    IF req[id].canBuild
    THEN /\ req' = [req EXCEPT ![id] = StartAttempt(@)]
         /\ activeRequests' = RegistrySet(activeRequests, id, req[id].attempt)
         /\ sendLog' = Append(sendLog, now)
    ELSE /\ req' = [req EXCEPT ![id].pc = "rejected",
                               ![id].lastError = StringifyError,
                               ![id].result = StringifyError.name]
         /\ UNCHANGED <<activeRequests, sendLog>>

\* request() resumes after an immediate grant
AttemptStart(id) ==
    /\ id \in DOMAIN req
    /\ req[id].pc = "ready"
    /\ EnterExecutor(id)
    /\ lastOp' = Step
    /\ UNCHANGED <<now, limiterVars, config, requestCounter>>

\* the limiter's timer grants the token request id is suspended on; request()
\* resumes and starts its first attempt
WaiterGrant(id) ==
    /\ ~ContinuationPending
    /\ id \in DOMAIN req
    /\ req[id].pc = "acquiring"
    /\ WaiterFireL(id)
    /\ EnterExecutor(id)
    /\ lastOp' = Step
    /\ UNCHANGED <<now, config, requestCounter>>

\* fetch() resolves with a response (lines 676-714)
Respond(id, status, header, body) ==
    /\ ~ContinuationPending
    /\ id \in DOMAIN req
    /\ req[id].pc = "sending"
    /\ LET r == [req[id] EXCEPT
                    !.hist = Append(@, Answer("response", status, header, body))]
       IN  IF status = 429 /\ r.attempt < config.maxRetries
           THEN \* clearTimeout, then _sleep(retryAfter); the finally block has not run
                /\ req' = [req EXCEPT ![id] =
                            [r EXCEPT !.pc = "sleep429",
                                      !.timeoutAt = -1,
                                      !.wakeAt = now + GetRetryAfter(header),
                                      !.hist = Append(@, Slept("sleep429",
                                                    GetRetryAfter(header)))]]
                /\ UNCHANGED activeRequests
           ELSE /\ activeRequests' = RegistryDelete(activeRequests, id)
                /\ req' = [req EXCEPT ![id] =
                            IF status = 429
                            THEN \* new ItchioRateLimitError(..., retryAfter)
                                 Catch([r EXCEPT !.retryAfter = GetRetryAfter(header)],
                                       RateLimitError)
                            ELSE IF ParseResponse(status, body) = NoError
                                 THEN [r EXCEPT !.pc = "resolved", !.result = "data",
                                                !.timeoutAt = -1]
                                 ELSE Catch(r, ParseResponse(status, body))]
    /\ lastOp' = Step
    /\ UNCHANGED <<now, limiterVars, config, requestCounter, sendLog>>

\* a response without retry-after header whose body is a JSON object
Response(id, status) == Respond(id, status, NoHeader, "object")

\* fetch() rejects with a network failure
NetworkFailure(id) ==
    /\ ~ContinuationPending
    /\ id \in DOMAIN req
    /\ req[id].pc = "sending"
    /\ activeRequests' = RegistryDelete(activeRequests, id)
    /\ req' = [req EXCEPT ![id] =
                Catch([@ EXCEPT !.hist = Append(@, Answer("networkFailure", 0,
                                                          NoHeader, ""))],
                      FetchError)]
    /\ lastOp' = Step
    /\ UNCHANGED <<now, limiterVars, config, requestCounter, sendLog>>

\* the attempt's timeout timer fires: controller.abort(); a pending fetch()
\* rejects with an AbortError, then the finally and catch blocks run
TimeoutFire(id) ==
    /\ ~ContinuationPending
    /\ id \in DOMAIN req
    /\ req[id].timeoutAt # -1
    /\ now >= req[id].timeoutAt
    /\ LET m == IF req[id].signal = "none" THEN req[id].merged
                 ELSE Forward(req[id].merged, "controller")
       IN  IF req[id].pc = "sending" /\ (req[id].signal = "none" \/ m.aborted)
           THEN /\ activeRequests' = RegistryDelete(activeRequests, id)
                /\ req' = [req EXCEPT ![id] =
                            Catch([@ EXCEPT !.abort = "timeout",
                                            !.merged = m,
                                            !.hist = Append(@, Answer("timeout", 0,
                                                                      NoHeader, ""))],
                                  AbortError)]
           ELSE /\ req' = [req EXCEPT ![id].timeoutAt = -1, ![id].merged = m]
                /\ UNCHANGED activeRequests
    /\ lastOp' = Step
    /\ UNCHANGED <<now, limiterVars, config, requestCounter, sendLog>>

\* fetch() rejects with an AbortError after cancelRequest/cancelAllRequests
\* aborted its controller
AbortSettle(id) ==
    /\ id \in DOMAIN req
    /\ req[id].pc = "sending"
    /\ req[id].abort # "none"
    /\ activeRequests' = RegistryDelete(activeRequests, id)
    /\ req' = [req EXCEPT ![id] =
                Catch([@ EXCEPT !.hist = Append(@, Answer("aborted", 0,
                                                          NoHeader, ""))],
                      AbortError)]
    /\ lastOp' = Step
    /\ UNCHANGED <<now, limiterVars, config, requestCounter, sendLog>>

\* mutant of Sleep429Wake: the continue after the 429 sleep does not count
\* as an attempt
Sleep429WakeSameAttempt(id) ==
    /\ ~ContinuationPending
    /\ id \in DOMAIN req
    /\ req[id].pc = "sleep429"
    /\ now >= req[id].wakeAt
    /\ activeRequests' = RegistrySet(RegistryDelete(activeRequests, id),
                                     id, req[id].attempt)
    /\ req' = [req EXCEPT ![id] = StartAttempt([@ EXCEPT !.wakeAt = -1])]
    /\ sendLog' = Append(sendLog, now)
    /\ lastOp' = Step
    /\ UNCHANGED <<now, limiterVars, config, requestCounter>>

\* the 429 sleep ends: `continue` runs the finally block, then attempt++ and
\* the next attempt starts
Sleep429Wake(id) ==
    /\ ~ContinuationPending
    /\ id \in DOMAIN req
    /\ req[id].pc = "sleep429"
    /\ now >= req[id].wakeAt
    /\ activeRequests' = RegistrySet(RegistryDelete(activeRequests, id),
                                     id, req[id].attempt + 1)
    /\ req' = [req EXCEPT ![id] = StartAttempt([@ EXCEPT !.wakeAt = -1,
                                                         !.attempt = @ + 1])]
    /\ sendLog' = Append(sendLog, now)
    /\ lastOp' = Step
    /\ UNCHANGED <<now, limiterVars, config, requestCounter>>

\* mutant of NextRetryDelay: the backoff never grows
NextRetryDelayConstant(d) == d

\* retryDelay = Math.min(retryDelay * retryMultiplier, maxRetryDelay)
NextRetryDelay(d) == Min(d * config.retryMultiplier, config.maxRetryDelay)

\* mutant of BackoffWake: the retry goes through rateLimiter.acquire() again
BackoffWakeReacquiring(id) ==
    /\ ~ContinuationPending
    /\ id \in DOMAIN req
    /\ req[id].pc = "backoff"
    /\ now >= req[id].wakeAt
    /\ AcquireL
    /\ activeRequests' = RegistrySet(activeRequests, id, req[id].attempt + 1)
    /\ req' = [req EXCEPT ![id] =
                StartAttempt([@ EXCEPT !.wakeAt = -1,
                                       !.retryDelay = NextRetryDelay(@),
                                       !.attempt = @ + 1])]
    /\ sendLog' = Append(sendLog, now)
    /\ lastOp' = Step
    /\ UNCHANGED <<now, config, requestCounter>>

\* the backoff sleep ends: retryDelay grows, then attempt++ and the next
\* attempt starts
BackoffWake(id) ==
    /\ ~ContinuationPending
    /\ id \in DOMAIN req
    /\ req[id].pc = "backoff"
    /\ now >= req[id].wakeAt
    /\ activeRequests' = RegistrySet(activeRequests, id, req[id].attempt + 1)
    /\ req' = [req EXCEPT ![id] =
                StartAttempt([@ EXCEPT !.wakeAt = -1,
                                       !.retryDelay = NextRetryDelay(@),
                                       !.attempt = @ + 1])]
    /\ sendLog' = Append(sendLog, now)
    /\ lastOp' = Step
    /\ UNCHANGED <<now, limiterVars, config, requestCounter>>

\* controller.abort() on the controller stored for request id: it ends the
\* fetch of the attempt that created it, if that fetch is still pending
Aborted(r, attempt) ==
    IF r.pc = "sending" /\ r.attempt = attempt
    THEN LET m == IF r.signal = "none" THEN r.merged
                  ELSE Forward(r.merged, "controller")
         IN  [r EXCEPT !.merged = m,
                       !.abort = IF @ = "none" /\ (r.signal = "none" \/ m.aborted)
                                 THEN "cancel" ELSE @]
    ELSE r

\* the caller aborts the options.signal of request id: the listener of the
\* current attempt's merged signal runs and fetch() is aborted
UserAbort(id) ==
    /\ id \in DOMAIN req
    /\ req[id].signal = "live"
    /\ LET r == req[id]
           m == IF r.pc = "sending" THEN Forward(r.merged, "user") ELSE r.merged
       IN  req' = [req EXCEPT ![id] =
                    [r EXCEPT !.signal = "aborted",
                              !.merged = m,
                              !.abort = IF @ = "none" /\ r.pc = "sending" /\ m.aborted
                                        THEN "user" ELSE @,
                              !.hist = Append(@, Answer("userAbort", 0, NoHeader, ""))]]
    /\ lastOp' = Step
    /\ UNCHANGED <<now, limiterVars, config, requestCounter, activeRequests, sendLog>>

\* cancelRequest(requestId)
CancelRequest(id) ==
    /\ IF id \in DOMAIN activeRequests
       THEN /\ req' = [req EXCEPT ![id] =
                        [Aborted(@, activeRequests[id]) EXCEPT
                            !.cancelPhase = req[id].pc,
                            !.sendsAtCancel = req[id].sends,
                            !.removedAt = req[id].attempt]]
            /\ activeRequests' = RegistryDelete(activeRequests, id)
            /\ lastOp' = Op("cancelRequest", id, "true")
       ELSE /\ lastOp' = Op("cancelRequest", id, "false")
            /\ UNCHANGED <<req, activeRequests>>
    /\ UNCHANGED <<now, limiterVars, config, requestCounter, sendLog>>

\* mutant of CancelAllRequests: the handles are aborted but activeRequests.clear()
\* is missing
CancelAllRequestsKeepingHandles ==
    /\ req' = [id \in DOMAIN req |->
                IF id \in DOMAIN activeRequests
                THEN [Aborted(req[id], activeRequests[id]) EXCEPT
                        !.removedAt = req[id].attempt]
                ELSE req[id]]
    /\ lastOp' = Op("cancelAllRequests", Cardinality(DOMAIN activeRequests), "none")
    /\ UNCHANGED <<now, limiterVars, config, requestCounter, activeRequests, sendLog>>

\* cancelAllRequests()
CancelAllRequests ==
    /\ req' = [id \in DOMAIN req |->
                IF id \in DOMAIN activeRequests
                THEN [Aborted(req[id], activeRequests[id]) EXCEPT
                        !.removedAt = req[id].attempt]
                ELSE req[id]]
    /\ activeRequests' = <<>>
    /\ lastOp' = Op("cancelAllRequests", Cardinality(DOMAIN activeRequests), "none")
    /\ UNCHANGED <<now, limiterVars, config, requestCounter, sendLog>>

\* resetRateLimiter()
ResetRateLimiter ==
    /\ ResetL
    /\ lastOp' = Op("reset", 0, "none")
    /\ UNCHANGED <<now, clientVars>>

NextClient ==
    \/ TickOfClient
    \/ Request
    \/ \E id \in RequestIds : WaiterGrant(id)
    \/ \E id \in RequestIds : AttemptStart(id)
    \/ \E id \in RequestIds : \E status \in Statuses : Response(id, status)
    \/ \E id \in RequestIds : NetworkFailure(id)
    \/ \E id \in RequestIds : TimeoutFire(id)
    \/ \E id \in RequestIds : AbortSettle(id)
    \/ \E id \in RequestIds : Sleep429Wake(id)
    \/ \E id \in RequestIds : BackoffWake(id)
    \/ \E id \in RequestIds : CancelRequest(id)
    \/ CancelAllRequests

\* a client whose limiter allows 1 request per 2 ms: a second request() in
\* the same window suspends in acquire()
InitOfClient ==
    /\ Init
    /\ maxTokens = 1
    /\ windowMs = 2

SpecClient == InitOfClient /\ [][NextClient]_vars

\* ---- one request and its retry loop -----------------------------------------

\* configurations whose delays are a few ms, for every maxRetries up to the bound
RetryConfigs ==
    {[timeout |-> 2, maxRetries |-> m, retryDelay |-> 1,
      retryMultiplier |-> 2, maxRetryDelay |-> 3] : m \in 0..MaxMaxRetries}

\* the responses of the transport: <<status, retry-after header, body>>
Responses ==
    {<<200, NoHeader, "object">>, <<200, NoHeader, "errors">>,
     <<200, NoHeader, "malformed">>,
     <<404, NoHeader, "object">>, <<404, NoHeader, "malformed">>,
     <<408, NoHeader, "object">>,
     <<503, NoHeader, "object">>, <<503, NoHeader, "malformed">>,
     <<429, NoHeader, "object">>, <<429, SecondsHeader(1), "object">>,
     <<429, DateHeader(2), "object">>, <<429, OtherHeader, "object">>}

\* the deadlines of the pending timers: attempt timeouts, sleeps, limiter waiters
PendingDeadlines ==
    {req[id].timeoutAt : id \in {i \in DOMAIN req : req[i].timeoutAt # -1}}
    \cup {req[id].wakeAt : id \in {i \in DOMAIN req : req[i].pc \in {"sleep429", "backoff"}}}
    \cup {calls[id].deadline : id \in armed}

\* nothing happens until the next timer is due: Date.now() is then its deadline
Advance ==
    /\ ~ContinuationPending
    /\ \E d \in PendingDeadlines :
        /\ d > now
        /\ \A e \in PendingDeadlines : e <= now \/ d <= e
        /\ now' = d
    /\ fresh' = FALSE
    /\ taLog' = <<>>
    /\ lastOp' = Step
    /\ UNCHANGED <<maxTokens, windowMs, tokens, lastRefill, queue, stats, calls,
                   armed, epochStart, preReset>>
    /\ UNCHANGED clientVars

\* the caller makes a single request()
RequestOnce ==
    /\ requestCounter = 0
    /\ \E canBuild \in BOOLEAN : RequestWith(canBuild, "none")

NextRetry ==
    \/ TickOfClient
    \/ Advance
    \/ RequestOnce
    \/ AttemptStart(1)
    \/ \E rsp \in Responses : Respond(1, rsp[1], rsp[2], rsp[3])
    \/ NetworkFailure(1)
    \/ TimeoutFire(1)
    \/ Sleep429Wake(1)
    \/ BackoffWake(1)

\* a client with any of the RetryConfigs, its limiter allowing 1 request per 2 ms
InitRetry ==
    /\ now = 0
    /\ InitLimiter
    /\ maxTokens = 1
    /\ windowMs = 2
    /\ config \in RetryConfigs
    /\ requestCounter = 0
    /\ activeRequests = <<>>
    /\ req = <<>>
    /\ sendLog = <<>>
    /\ lastOp = Op("init", 0, "none")

SpecRetry == InitRetry /\ [][NextRetry]_vars

\* ---- one request with a caller-supplied signal ------------------------------

\* the caller makes a single request() with an options.signal, aborted or not
RequestSignalled ==
    /\ requestCounter = 0
    /\ \E signal \in {"live", "aborted"} : RequestWith(TRUE, signal)

NextSignal ==
    \/ TickOfClient
    \/ Advance
    \/ RequestSignalled
    \/ AttemptStart(1)
    \/ \E status \in Statuses : Response(1, status)
    \/ NetworkFailure(1)
    \/ TimeoutFire(1)
    \/ AbortSettle(1)
    \/ Sleep429Wake(1)
    \/ BackoffWake(1)
    \/ UserAbort(1)
    \/ CancelRequest(1)

SpecSignal == InitRetry /\ [][NextSignal]_vars

\* ---- claims about the limiter ---------------------------------------------

\* C1: in every reachable state the token count satisfies
\* 0 <= tokens <= capacity.
C1_TokensInRange == 0 <= tokens /\ tokens <= Full

\* the acquire() grants made since the last reset() in [t, t + windowMs)
GrantsIn(t) ==
    {i \in (epochStart + 1)..Len(calls) :
        /\ calls[i].state = "granted"
        /\ t <= calls[i].grantedAt
        /\ calls[i].grantedAt < t + windowMs}

\* C2: the number of acquire() grants (immediate and deferred together)
\* inside any rolling interval of length windowMs never exceeds capacity.
C2_BoundedRate == \A t \in 0..MaxTime : Cardinality(GrantsIn(t)) <= maxTokens

\* C3: grants are FIFO in acquire() invocation order: no call invoked later
\* is granted while an earlier call is still suspended in the waiter queue.
C3_FifoGrants ==
    \A i \in DOMAIN calls : \A j \in DOMAIN calls :
        (i < j /\ i \notin preReset /\ calls[j].state = "granted")
            => calls[i].state = "granted"

\* C5: on a fresh (or freshly reset) limiter, with no time elapsing, the
\* first capacity tryAcquire() calls return true, every later one returns
\* false, and each false one increments the rejected counter.
C5_BurstOfTryAcquire ==
    fresh =>
        /\ \A i \in DOMAIN taLog : taLog[i] = (i <= maxTokens)
        /\ stats.rejectedRequests = Max(0, Len(taLog) - maxTokens)
        /\ stats.totalRequests = Min(Len(taLog), maxTokens)

C5_Witness ==
    /\ fresh
    /\ maxTokens = 2
    /\ Len(taLog) = maxTokens + 1
    /\ taLog[maxTokens + 1] = FALSE
    /\ stats.rejectedRequests = 1

\* C6: a waiter queued before a reset() is never granted afterwards (its
\* timer is no longer pending and it stays suspended), and right after
\* reset() tokens = capacity, the queue is empty and the statistics are zero.
C6_ResetCancelsWaiters ==
    /\ \A id \in preReset : calls[id].state = "waiting" /\ id \notin armed
    /\ lastOp.op = "reset" =>
            tokens = Full /\ queue = <<>> /\ stats = ZeroStats

C6_Witness ==
    \E id \in preReset :
        /\ now > calls[id].deadline
        /\ lastOp.op # "reset"
        /\ tokens < Full

\* ---- claims about the client ----------------------------------------------

\* the fetch() calls made in [t, t + windowMs)
SendsIn(t) == {i \in DOMAIN sendLog : t <= sendLog[i] /\ sendLog[i] < t + windowMs}

\* C4: across all requests of one client, the number of transport sends
\* (first attempts and retries) started in any rolling windowMs interval
\* never exceeds the limiter capacity.
C4_SendsWithinBudget == \A t \in 0..MaxTime : Cardinality(SendsIn(t)) <= maxTokens

\* C7: cancelRequest(id) while the send of request id is pending returns
\* true and aborts the send; from then on the request makes no further send
\* and can only reject; a second cancelRequest(id) right after returns false.
C7_CancelWhileSending ==
    /\ [](\A id \in DOMAIN req :
            req[id].cancelPhase = "sending" =>
                /\ req[id].sends = req[id].sendsAtCancel
                /\ \/ req[id].pc = "rejected"
                   \/ req[id].pc = "sending" /\ req[id].abort # "none")
    /\ [][\A id \in DOMAIN req :
            (lastOp'.op = "cancelRequest" /\ lastOp'.id = id) =>
                /\ (req[id].pc = "sending" /\ req[id].abort = "none")
                        => (lastOp'.ret = "true" /\ req'[id].abort = "cancel")
                /\ lastOp = Op("cancelRequest", id, "true")
                        => lastOp'.ret = "false"]_vars

C7_Witness ==
    \E id \in DOMAIN req :
        /\ req[id].cancelPhase = "sending"
        /\ req[id].pc = "rejected"
        /\ req[id].attempt = 0
        /\ lastOp = Op("cancelRequest", id, "false")

\* C8 as stated: a handle is registered under requestId for the whole
\* lifetime of the request (also while it waits for a limiter token and
\* while it sleeps between attempts), and none once it has settled.
C8_HandleForLifetime ==
    \A id \in DOMAIN req :
        /\ (req[id].pc \in {"acquiring", "sending", "sleep429", "backoff"}
                /\ req[id].abort = "none" /\ req[id].removedAt = -1)
            => id \in DOMAIN activeRequests
        /\ req[id].pc \in {"resolved", "rejected"} => id \notin DOMAIN activeRequests

\* C8 amended: a handle is registered under requestId exactly while an
\* attempt is in progress (from its activeRequests.set to its finally block,
\* a 429 sleep included) and cancelRequest/cancelAllRequests has not removed
\* it; it is the current attempt's controller; none is registered while the
\* request waits for a limiter token, sleeps in backoff, or has settled.
C8_HandleWhileAttempt ==
    /\ DOMAIN activeRequests \subseteq DOMAIN req
    /\ \A id \in DOMAIN req :
        /\ id \in DOMAIN activeRequests <=>
                (req[id].pc \in {"sending", "sleep429"}
                    /\ req[id].removedAt # req[id].attempt)
        /\ id \in DOMAIN activeRequests => activeRequests[id] = req[id].attempt

C8_Witness ==
    \E i \in DOMAIN req : \E j \in DOMAIN req :
        /\ req[i].pc = "backoff" /\ i \notin DOMAIN activeRequests
        /\ req[j].pc = "acquiring" /\ j \notin DOMAIN activeRequests

\* C9: whenever cancelRequest(id) returns true, the transport is never
\* invoked again for that request and the request does not resolve.
C9_CancelIsTerminal ==
    \A id \in DOMAIN req :
        req[id].cancelPhase # "none" =>
            /\ req[id].sends = req[id].sendsAtCancel
            /\ req[id].pc # "resolved"

\* C10: when an attempt has been left (the request is at the head of the
\* next attempt, in its backoff sleep, or settled) its timeout timer is
\* cleared and no handle is registered for the request; during a 429 sleep
\* the timer is already cleared.
C10_AttemptReleased ==
    \A id \in DOMAIN req :
        /\ req[id].pc \in {"acquiring", "ready", "backoff", "resolved", "rejected"}
            => (req[id].timeoutAt = -1 /\ id \notin DOMAIN activeRequests)
        /\ req[id].pc = "sleep429" => req[id].timeoutAt = -1

C10_Witness ==
    \E id \in DOMAIN req :
        /\ req[id].pc = "rejected"
        /\ req[id].sends = 2
        /\ req[id].lastError = AbortError
        /\ req[id].timeoutAt = -1
        /\ id \notin DOMAIN activeRequests

\* ---- claims about the retry loop ------------------------------------------

\* b^k
RECURSIVE Pow(_, _)
Pow(b, k) == IF k = 0 THEN 1 ELSE b * Pow(b, k - 1)

\* the k-th value (k = 0, 1, ...) of the exponential backoff sequence
BackoffValue(k) ==
    Min(config.retryDelay * Pow(config.retryMultiplier, k), config.maxRetryDelay)

\* the history entries that are outcomes of attempts / _sleep calls
IsAnswer(e) == e.k \in {"response", "networkFailure", "timeout", "aborted"}
IsSleep(e) == e.k \in {"backoff", "sleep429"}
Answers(r) == SelectSeq(r.hist, IsAnswer)
Sleeps(r) == SelectSeq(r.hist, IsSleep)

\* every attempt of r so far was answered with a well-formed 503
Only503(r) ==
    /\ r.sends >= 1
    /\ \A i \in DOMAIN r.hist :
            IsAnswer(r.hist[i]) => r.hist[i] = Answer("response", 503, NoHeader, "object")

IsBackoff(e) == e.k = "backoff"
BackoffSleeps(r) == SelectSeq(r.hist, IsBackoff)

\* the number of attempts answered before history entry i
AnswersBefore(r, i) == Len(SelectSeq(SubSeq(r.hist, 1, i - 1), IsAnswer))

\* C12: a 429 with retry-after: n seconds received while attempts remain is
\* followed by _sleep(n * 1000) and another send; 429 sleeps leave the backoff
\* value alone (the k-th backoff sleep is the k-th value of the exponential
\* sequence however many 429 sleeps lie in between); an attempt answered 200
\* with a JSON body without errors resolves the request with the parsed body.
C12_RetryAfterSeconds ==
    \A id \in DOMAIN req :
        LET r == req[id]
        IN  /\ \A i \in DOMAIN r.hist :
                /\ ( /\ r.hist[i].k = "response" /\ r.hist[i].status = 429
                     /\ r.hist[i].header.kind = "seconds"
                     /\ AnswersBefore(r, i) < config.maxRetries )
                    => /\ i < Len(r.hist)
                       /\ r.hist[i + 1] = Slept("sleep429", r.hist[i].header.v * 1000)
                       /\ i + 1 = Len(r.hist) =>
                            \/ r.pc = "sleep429" /\ r.sends = AnswersBefore(r, i) + 1
                            \/ r.pc = "sending" /\ r.sends = AnswersBefore(r, i) + 2
                /\ r.hist[i] = Answer("response", 200, NoHeader, "object")
                    => i = Len(r.hist) /\ r.pc = "resolved" /\ r.result = "data"
            /\ \A k \in DOMAIN BackoffSleeps(r) :
                    BackoffSleeps(r)[k].ms = BackoffValue(k - 1)
            /\ r.pc \in {"sending", "sleep429"} =>
                    r.retryDelay = BackoffValue(Len(BackoffSleeps(r)))

C12_Witness ==
    \E id \in DOMAIN req :
        /\ req[id].hist = << Answer("response", 429, SecondsHeader(1), "object"),
                             Slept("sleep429", 1000),
                             Answer("response", 503, NoHeader, "object"),
                             Slept("backoff", 1),
                             Answer("response", 200, NoHeader, "object") >>
        /\ req[id].pc = "resolved"
        /\ req[id].sends = 3
        /\ now >= 1000

\* C13: each request() performs exactly one acquire(): the acquire()
\* invocations are as many as the request() calls, the grants as many as the
\* requests that got past acquire(), whatever the number of attempts; a step
\* that starts a retry (ordinary or 429) leaves the limiter untouched.
C13_OneAcquirePerRequest ==
    /\ [](/\ Len(calls) = requestCounter
          /\ stats.totalRequests =
                Cardinality({id \in DOMAIN req : req[id].pc # "acquiring"}))
    /\ [][\A id \in DOMAIN req :
            req'[id].attempt > req[id].attempt =>
                /\ req'[id].sends = req[id].sends + 1
                /\ UNCHANGED <<tokens, lastRefill, queue, stats, calls, armed>>]_vars

C13_Witness ==
    \E id \in DOMAIN req :
        /\ req[id].sends = 2
        /\ req[id].attempt = 1
        /\ req[id].hist[1].status = 429
        /\ requestCounter = 2
        /\ stats.totalRequests = 2
        /\ Len(calls) = 2

\* the number of backoff sleeps before history entry i
BackoffsBefore(r, i) == Len(SelectSeq(SubSeq(r.hist, 1, i - 1), IsBackoff))

\* C14: a 429 without a usable retry-after header, received while attempts
\* remain, is followed by a sleep of the current backoff value of the retry
\* loop (the value grown by the preceding ordinary failures).
C14_FallbackIsCurrentBackoff ==
    \A id \in DOMAIN req :
        LET r == req[id]
        IN  \A i \in DOMAIN r.hist :
                ( /\ r.hist[i].k = "response" /\ r.hist[i].status = 429
                  /\ r.hist[i].header.kind \in {"none", "other"}
                  /\ AnswersBefore(r, i) < config.maxRetries )
                => /\ i < Len(r.hist)
                   /\ r.hist[i + 1] = Slept("sleep429", BackoffValue(BackoffsBefore(r, i)))

C16_RequestTimeoutStatusRetried ==
    \A id \in DOMAIN req :
        LET r == req[id]
        IN  \A i \in DOMAIN r.hist :
                ( /\ r.hist[i] = Answer("response", 408, NoHeader, "object")
                  /\ AnswersBefore(r, i) < config.maxRetries )
                => /\ i < Len(r.hist)
                   /\ r.hist[i + 1] = Slept("backoff", BackoffValue(BackoffsBefore(r, i)))
                   /\ ~(r.pc = "rejected" /\ i + 1 = Len(r.hist))

\* C17: an attempt ended by its own timeout timer while attempts remain is
\* followed by a backoff sleep and a new attempt whose timer is armed for the
\* full config.timeout; the request rejects with TimeoutError only when the
\* timed-out attempt was the last permitted one.
C17_TimeoutIsRetried ==
    \A id \in DOMAIN req :
        LET r == req[id]
        IN  /\ \A i \in DOMAIN r.hist :
                r.hist[i].k = "timeout" =>
                    IF AnswersBefore(r, i) < config.maxRetries
                    THEN /\ i < Len(r.hist)
                         /\ r.hist[i + 1] =
                                Slept("backoff", BackoffValue(BackoffsBefore(r, i)))
                    ELSE /\ i = Len(r.hist)
                         /\ r.pc = "rejected"
                         /\ r.result = "ItchioTimeoutError"
            /\ (r.pc = "rejected" /\ r.result = "ItchioTimeoutError")
                    => Len(Answers(r)) = config.maxRetries + 1

\* C18: a request rejects with TimeoutError only when the attempt's own
\* timeout timer caused the abort; an attempt aborted by cancelRequest or
\* cancelAllRequests rejects with an error that is not a TimeoutError.
C18_AbortSourceDistinguished ==
    \A id \in DOMAIN req :
        /\ req[id].result = "ItchioTimeoutError" => req[id].abort = "timeout"
        /\ (req[id].pc = "rejected" /\ req[id].abort = "cancel"
                /\ req[id].lastError = AbortError)
            => req[id].result # "ItchioTimeoutError"

\* the outcome of an attempt is a failure
IsFailure(e) == ~(e.k = "response" /\ ParseResponse(e.status, e.body) = NoError
                                   /\ e.status # 429)

\* the rejection of r carries the correctly typed error of the failed attempt e
TypedAs(r, e) ==
    IF e.k = "response" /\ e.status = 429
        THEN r.result = "ItchioRateLimitError"
    ELSE IF e.k = "response" /\ e.body # "malformed"
        THEN r.result = "ItchioApiError" /\ r.lastError.status = e.status
    ELSE IF e.k = "timeout" THEN r.result = "ItchioTimeoutError"
    ELSE IF e.k = "aborted" THEN r.result # "ItchioTimeoutError"
    ELSE r.result = "ItchioNetworkError"

\* C19: a request makes at most maxRetries+1 sends; when its last permitted
\* attempt fails it is rejected with that attempt's error, correctly typed,
\* and it does not resolve.
C19_Exhaustion ==
    \A id \in DOMAIN req :
        LET r == req[id]
            a == Answers(r)
        IN  /\ r.sends <= config.maxRetries + 1
            /\ (Len(a) = config.maxRetries + 1 /\ IsFailure(a[Len(a)]))
                    => r.pc = "rejected" /\ TypedAs(r, a[Len(a)])

\* the error classes request() may reject with
Taxonomy == {"ItchioApiError", "ItchioRateLimitError", "ItchioNetworkError",
             "ItchioTimeoutError"}

\* C20: every rejection of request() is one variant of the closed taxonomy;
\* no raw exception (transport, timer, body parsing, URL/header/body building)
\* reaches the caller.
C20_RejectionsAreTyped ==
    \A id \in DOMAIN req :
        req[id].pc = "rejected" => req[id].result \in Taxonomy

\* C21: request() never resolves on a response whose parsed body carries a
\* non-empty errors field: an ok response with in-band errors is an API
\* failure, caught with an ApiError carrying the response's status (then
\* retried or thrown like any other failure), and a request resolves only on
\* an ok response whose body has no errors.
C21_InBandErrorsFail ==
    \A id \in DOMAIN req :
        LET r == req[id]
        IN  /\ \A i \in DOMAIN r.hist :
                ( /\ r.hist[i].k = "response" /\ IsOk(r.hist[i].status)
                  /\ r.hist[i].body = "errors" )
                => IF i = Len(r.hist)
                   THEN /\ r.pc = "rejected"
                        /\ r.lastError = ApiError(r.hist[i].status)
                        /\ r.result = "ItchioApiError"
                   ELSE r.hist[i + 1].k = "backoff"
            /\ r.pc = "resolved" =>
                    /\ r.hist # <<>>
                    /\ r.hist[Len(r.hist)].k = "response"
                    /\ IsOk(r.hist[Len(r.hist)].status)
                    /\ r.hist[Len(r.hist)].body = "object"

C21_Witness ==
    \E id \in DOMAIN req :
        /\ config.maxRetries = 1
        /\ req[id].hist = << Answer("response", 503, NoHeader, "object"),
                             Slept("backoff", 1),
                             Answer("response", 200, NoHeader, "errors") >>
        /\ req[id].pc = "rejected"
        /\ req[id].lastError = ApiError(200)

\* ---- claims about the caller's signal ----------------------------------------

\* the history entries of r after the caller's signal was aborted (all of them
\* when it was aborted before request() was called)
AfterUserAbort(r) ==
    LET at == {i \in DOMAIN r.hist : r.hist[i].k = "userAbort"}
    IN  IF at = {} THEN DOMAIN r.hist
        ELSE {i \in DOMAIN r.hist : \A u \in at : i > u}

\* the entries before them
BeforeUserAbort(r) == DOMAIN r.hist \ AfterUserAbort(r)

C23_MergedSignal ==
    /\ [](\A id \in DOMAIN req :
            (req[id].pc = "sending" /\ req[id].signal # "none") =>
                (req[id].merged.aborted <=>
                    (req[id].signal = "aborted" \/ req[id].abort = "cancel")))
    /\ [][\A id \in DOMAIN req :
            ( /\ req[id].pc = "sending" /\ req'[id].pc = "sending"
              /\ req'[id].sends = req[id].sends /\ req[id].signal # "none" )
            => /\ req[id].merged.aborted => req'[id].merged.aborted
               /\ (~req[id].merged.aborted /\ req'[id].merged.aborted) =>
                    \/ req[id].signal = "live" /\ req'[id].signal = "aborted"
                    \/ req[id].abort = "none" /\ req'[id].abort = "cancel"]_vars

C23_Witness ==
    \E id \in DOMAIN req :
        /\ req[id].pc = "sending"
        /\ req[id].signal = "live"
        /\ req[id].abort = "cancel"
        /\ req[id].merged = [aborted |-> TRUE, listens |-> {"user"}]

\* ---- the error taxonomy (errors.js) and isRetryableError -------------------
\* the class each error class extends
Extends ==
    [ItchioError           |-> "Error",
     ItchioApiError        |-> "ItchioError",
     ItchioRateLimitError  |-> "ItchioApiError",
     ItchioNetworkError    |-> "ItchioError",
     ItchioTimeoutError    |-> "ItchioError",
     ItchioAuthError       |-> "ItchioApiError",
     ItchioScopeError      |-> "ItchioError",
     ItchioValidationError |-> "ItchioError"]

RECURSIVE InstanceOf(_, _)
\* error instanceof C, for an error constructed by class cls
InstanceOf(cls, C) ==
    \/ cls = C
    \/ cls \in DOMAIN Extends /\ InstanceOf(Extends[cls], C)

\* the status codes an ItchioApiError or ItchioAuthError is constructed with
StatusCodes == 100..609

\* the values isRetryableError is called with: the errors of the taxonomy
\* (ItchioRateLimitError passes 429 to its super constructor), a plain Error
\* and a value that is no error at all
TaxonomyErrors ==
    [class : {"ItchioApiError", "ItchioAuthError"}, statusCode : StatusCodes]
    \cup {[class |-> "ItchioRateLimitError", statusCode |-> 429]}
    \cup [class : {"ItchioError", "ItchioNetworkError", "ItchioTimeoutError",
                   "ItchioScopeError", "ItchioValidationError", "Error", "null"},
          statusCode : {0}]

\* mutant of IsServerError: no upper bound on the status
IsServerErrorUnbounded(e) == e.statusCode >= 500

\* ItchioApiError.isServerError()
IsServerError(e) == e.statusCode >= 500 /\ e.statusCode < 600

\* isRetryableError(error)
IsRetryableError(e) ==
    IF InstanceOf(e.class, "ItchioNetworkError") THEN TRUE
    ELSE IF InstanceOf(e.class, "ItchioTimeoutError") THEN TRUE
    ELSE IF InstanceOf(e.class, "ItchioRateLimitError") THEN TRUE
    ELSE IF InstanceOf(e.class, "ItchioApiError") /\ IsServerError(e) THEN TRUE
    ELSE IF InstanceOf(e.class, "ItchioApiError") THEN e.statusCode \in {408, 429}
    ELSE FALSE

\* a caller classifies an error; lastOp keeps the error and the answer
Classify(e) ==
    /\ lastOp' = Op("isRetryableError", e, IF IsRetryableError(e) THEN "true" ELSE "false")
    /\ UNCHANGED <<now, limiterVars, clientVars>>

NextErrors == \E e \in TaxonomyErrors : Classify(e)

SpecErrors == InitOfClient /\ [][NextErrors]_vars

\* C29: isRetryableError answers true exactly for an ItchioNetworkError, an
\* ItchioTimeoutError, an ItchioRateLimitError and an ItchioApiError (an
\* ItchioAuthError included) whose status is 5xx, 408 or 429; it answers
\* false for every other ItchioApiError status, for ItchioScopeError,
\* ItchioValidationError, the base ItchioError and values outside the taxonomy.
C29_RetryableExactly ==
    lastOp.op = "isRetryableError" =>
        LET e == lastOp.id
        IN  /\ lastOp.ret \in {"true", "false"}
            /\ lastOp.ret = "true" <=>
                  \/ e.class \in {"ItchioNetworkError", "ItchioTimeoutError",
                                  "ItchioRateLimitError"}
                  \/ /\ e.class \in {"ItchioApiError", "ItchioAuthError"}
                     /\ e.statusCode \in (500..599) \cup {408, 429}

\* an ItchioAuthError of status 403 is classified as not retryable
C29_Witness ==
    /\ lastOp.op = "isRetryableError"
    /\ lastOp.id = [class |-> "ItchioAuthError", statusCode |-> 403]
    /\ lastOp.ret = "false"

\* ---- claims about the sequence of attempts ------------------------------------

\* C24: the attempts of one request are strictly sequential: a timeout timer
\* is armed and a send is pending only for the current attempt, a registered
\* handle is the current attempt's, every earlier send has been answered, and
\* a step that starts an attempt finds the previous send settled and its timer
\* cleared (a handle still registered then is the one kept through a 429
\* sleep, which the finally block deletes before the new one is set).
C24_SequentialAttempts ==
    /\ [](\A id \in DOMAIN req :
            LET r == req[id]
            IN  /\ r.timeoutAt # -1 => r.pc = "sending"
                /\ Len(Answers(r)) = r.sends - (IF r.pc = "sending" THEN 1 ELSE 0)
                /\ id \in DOMAIN activeRequests =>
                        /\ activeRequests[id] = r.attempt
                        /\ r.pc \in {"sending", "sleep429"}
                /\ r.sends \in {0, r.attempt + 1})
    /\ [][\A id \in DOMAIN req :
            req'[id].sends # req[id].sends =>
                /\ req'[id].sends = req[id].sends + 1
                /\ req[id].pc # "sending"
                /\ req[id].timeoutAt = -1
                /\ id \in DOMAIN activeRequests => req[id].pc = "sleep429"
                /\ activeRequests'[id] = req'[id].attempt]_vars

C24_Witness ==
    \E id \in DOMAIN req :
        /\ req[id].pc = "sending"
        /\ req[id].attempt = 1
        /\ req[id].sends = 2
        /\ req[id].hist[1].status = 429
        /\ activeRequests[id] = 1
        /\ req[id].timeoutAt = now + config.timeout

\* C25: a cancelAllRequests() step aborts the controller of every registered
\* handle (a pending send of such a request is aborted), leaves the registry
\* empty and returns the number of handles registered when it was called; a
\* cancelRequest(id) made right after it returns false for every id.
C25_CancelAll ==
    [][ /\ lastOp'.op = "cancelAllRequests" =>
            /\ lastOp'.id = Cardinality(DOMAIN activeRequests)
            /\ activeRequests' = <<>>
            /\ \A id \in DOMAIN activeRequests :
                    req[id].pc = "sending" =>
                        /\ req'[id].pc = "sending"
                        /\ req'[id].abort # "none"
            /\ \A id \in DOMAIN req \ DOMAIN activeRequests : req'[id] = req[id]
        /\ (lastOp.op = "cancelAllRequests" /\ lastOp'.op = "cancelRequest") =>
            lastOp'.ret = "false" ]_vars

C25_Witness ==
    /\ lastOp = Op("cancelAllRequests", 2, "none")
    /\ activeRequests = <<>>
    /\ \A id \in RequestIds :
            id \in DOMAIN req /\ req[id].pc = "sending" /\ req[id].abort = "cancel"

\* ---- claims about the limiter's queries --------------------------------------

\* the limiter operation (or timer) that makes a step of SpecQueries
IsAcquireStep == Len(calls') > Len(calls)
IsWaiterFireStep == armed' # armed /\ Len(calls') = Len(calls) /\ lastOp'.op # "reset"
IsGetStatsStep == lastOp'.op = "getStats"

\* C26 (the frame): a getStats() step leaves tokens, lastRefill, the queue, the
\* pending timers and the statistics unchanged and reports floor(tokens).
GetStatsIsObservational ==
    IsGetStatsStep =>
        /\ UNCHANGED <<tokens, lastRefill, queue, armed, calls, stats>>
        /\ lastOp'.id = tokens \div windowMs

\* C26 as stated: getStats() is observational, and what it reports changes
\* over no step other than an acquire, a tryAcquire, a reset or a waiter's
\* timer firing, so that two calls with none of these between them agree.
C26_GetStatsObservational ==
    [][ /\ GetStatsIsObservational
        /\ ( /\ ~IsAcquireStep
             /\ ~IsWaiterFireStep
             /\ lastOp'.op \notin {"tryAcquire", "reset"} )
           => StatsSnapshot'.availableTokens = StatsSnapshot.availableTokens ]_vars

\* C26 amended: isThrottling() refills, so it is among the operations that
\* must not come between the two getStats() calls.
C26_GetStatsObservationalAmended ==
    [][ /\ GetStatsIsObservational
        /\ ( /\ ~IsAcquireStep
             /\ ~IsWaiterFireStep
             /\ lastOp'.op \notin {"tryAcquire", "reset", "isThrottling"} )
           => StatsSnapshot'.availableTokens = StatsSnapshot.availableTokens ]_vars

\* getStats() called after time has passed since the last refill: a refill
\* on read would report one token more
C26_Witness ==
    /\ lastOp.op = "getStats"
    /\ lastOp.id = 0
    /\ RefillTokens(tokens, lastRefill, now) \div windowMs > 0

\* C27: isThrottling() returns true exactly when the token count refilled
\* for the time elapsed since lastRefill is below 1 or the queue is not empty;
\* it leaves the queue, the timers, the calls and the statistics unchanged
\* and takes no token (tokens becomes the refilled count).
C27_IsThrottling ==
    [][ lastOp'.op = "isThrottling" =>
            LET t == Min(Full, tokens + (now - lastRefill) * maxTokens)
            IN  /\ lastOp'.ret \in {"true", "false"}
                /\ lastOp'.ret = "true" <=> (t < One \/ queue # <<>>)
                /\ UNCHANGED <<queue, armed, calls, stats>>
                /\ tokens' = t ]_vars

\* isThrottling() answers false once the refill has restored the token that
\* a grant had taken
C27_Witness ==
    /\ lastOp = Op("isThrottling", 0, "false")
    /\ stats.totalRequests = maxTokens
    /\ now > 0
    /\ lastRefill = now
    /\ tokens = Full

\* C28: getTimeUntilRefill() is in 0..windowMs, and over any step other than
\* reset() the value it would return does not grow, so that of two calls
\* the later one never returns more than the earlier one.
C28_MonotonicCountdown ==
    /\ [](lastOp.op = "getTimeUntilRefill" => lastOp.id \in 0..windowMs)
    /\ [][lastOp'.op # "reset" => TimeUntilRefill' <= TimeUntilRefill]_vars

\* ---- claims about request identifiers ----------------------------------------

\* C30: the requestIds of one client are unique and strictly increasing in
\* the order of the request() calls (the k-th call gets k, the key of its
\* registry entries), and a registry entry is set, replaced or removed only
\* by a step of the request it belongs to or by a cancellation.
C30_UniqueRequestIds ==
    /\ [](
            /\ \A i, j \in DOMAIN req :
                 /\ i # j => req[i].requestId # req[j].requestId
                 /\ i < j => req[i].requestId < req[j].requestId
            /\ \A k \in DOMAIN req : req[k].requestId = k
            /\ requestCounter = Len(req)
            /\ DOMAIN activeRequests \subseteq {req[k].requestId : k \in DOMAIN req}
          )
    /\ [][\A id \in DOMAIN req :
            LET before == IF id \in DOMAIN activeRequests
                          THEN activeRequests[id] ELSE -1
                after  == IF id \in DOMAIN activeRequests'
                          THEN activeRequests'[id] ELSE -1
            IN  before # after =>
                    \/ req'[id] # req[id]
                    \/ lastOp'.op \in {"cancelRequest", "cancelAllRequests"}]_vars

\* two requests of one client in flight at once, each with its own entry
C30_Witness ==
    /\ Len(req) = 2
    /\ req[1].requestId = 1 /\ req[2].requestId = 2
    /\ DOMAIN activeRequests = {1, 2}
    /\ req[1].pc = "sending" /\ req[2].pc = "sending"

\* ---- the backoff sequence under any configuration ----------------------------
\* { ...DEFAULT_CONFIG, ...config }: the constructor takes the caller's delays
\* as they are, a retryDelay above maxRetryDelay included
BackoffConfigs ==
    {[timeout |-> 2, maxRetries |-> 2, retryDelay |-> d,
      retryMultiplier |-> m, maxRetryDelay |-> x] :
        d \in {1, 2}, m \in {1, 2}, x \in {1, 3}}

InitBackoff ==
    /\ now = 0
    /\ InitLimiter
    /\ maxTokens = 1
    /\ windowMs = 2
    /\ config \in BackoffConfigs
    /\ requestCounter = 0
    /\ activeRequests = <<>>
    /\ req = <<>>
    /\ sendLog = <<>>
    /\ lastOp = Op("init", 0, "none")

SpecBackoff == InitBackoff /\ [][NextRetry]_vars

\* C31: the k-th backoff sleep of a request (k = 0, 1, ...) lasts
\* min(retryDelay * retryMultiplier^k, maxRetryDelay) ms, whatever the
\* configuration, so that no backoff sleep is longer than maxRetryDelay.
C31_BackoffSequence ==
    \A id \in DOMAIN req :
        \A k \in DOMAIN BackoffSleeps(req[id]) :
            /\ BackoffSleeps(req[id])[k].ms = BackoffValue(k - 1)
            /\ BackoffSleeps(req[id])[k].ms <= config.maxRetryDelay

\* ---- request bodies: JSON.stringify, the echo, response.json() ---------------
\* JavaScript values, tagged by type
Null == [t |-> "null", v |-> 0]
NaN == [t |-> "nan", v |-> 0]
BigInt == [t |-> "bigint", v |-> 1]
Bool(b) == [t |-> "boolean", v |-> b]
Num(n) == [t |-> "number", v |-> n]
Str(str) == [t |-> "string", v |-> str]
DateOf(iso) == [t |-> "date", v |-> iso]
Arr(elems) == [t |-> "array", v |-> elems]
Obj(fields) == [t |-> "object", v |-> fields]

NoFields == [key \in {} |-> Null]

\* the property names of the bodies, in insertion order
Keys == <<"title", "errors">>

\* the values of a body's title property
Titles == {Str("a"), Num(0), Null, Undefined, NaN, DateOf("2020-01-01T00:00:00.000Z"), BigInt}

\* the values of a body's errors property
ErrorLists == {Arr(<<>>), Arr(<<Str("e")>>)}

\* the data values post(endpoint, data) is called with
BodyValues ==
    {Bool(FALSE), Bool(TRUE), Num(0), Num(1), Str(""), Str("a"), NaN,
     Arr(<<>>), Arr(<<Num(1)>>), Arr(<<Undefined>>), Obj(NoFields)}
    \cup {Obj("title" :> x) : x \in Titles}
    \cup {Obj("errors" :> e) : e \in ErrorLists}
    \cup {Obj(("title" :> x) @@ ("errors" :> e)) : x \in Titles, e \in ErrorLists}

\* the boolean a value converts to (options.body && ..., data.errors && ...)
Truthy(val) ==
    CASE val.t \in {"undefined", "null", "nan"} -> FALSE
      [] val.t = "boolean" -> val.v
      [] val.t = "number" -> val.v # 0
      [] val.t = "string" -> val.v # ""
      [] OTHER -> TRUE

\* the tokens of a JSON text
Tok(k) == [k |-> k, v |-> 0]
NumTok(n) == [k |-> "num", v |-> n]
StrTok(str) == [k |-> "str", v |-> str]

RECURSIVE Throws(_)
\* JSON.stringify(val) throws a TypeError: a BigInt cannot be serialized
Throws(val) ==
    CASE val.t = "bigint" -> TRUE
      [] val.t = "array" -> \E i \in DOMAIN val.v : Throws(val.v[i])
      [] val.t = "object" -> \E key \in DOMAIN val.v : Throws(val.v[key])
      [] OTHER -> FALSE

RECURSIVE JsonStringify(_), StringifyMembers(_, _, _), StringifyElements(_, _)
\* JSON.stringify(val), as the sequence of tokens of the text: NaN becomes
\* null, a Date its toISOString(), an undefined array element null
JsonStringify(val) ==
    CASE val.t \in {"null", "nan", "undefined"} -> <<Tok("null")>>
      [] val.t = "boolean" -> <<Tok(IF val.v THEN "true" ELSE "false")>>
      [] val.t = "number" -> <<NumTok(val.v)>>
      [] val.t \in {"string", "date"} -> <<StrTok(val.v)>>
      [] val.t = "array" -> <<Tok("[")>> \o StringifyElements(val.v, 1) \o <<Tok("]")>>
      [] val.t = "object" -> <<Tok("{")>> \o StringifyMembers(val.v, 1, TRUE) \o <<Tok("}")>>

\* the members of an object from the i-th key on; a property whose value is
\* undefined is left out
StringifyMembers(fields, i, first) ==
    IF i > Len(Keys) THEN <<>>
    ELSE IF Keys[i] \notin DOMAIN fields \/ fields[Keys[i]].t = "undefined"
         THEN StringifyMembers(fields, i + 1, first)
         ELSE (IF first THEN <<>> ELSE <<Tok(",")>>)
              \o <<StrTok(Keys[i]), Tok(":")>> \o JsonStringify(fields[Keys[i]])
              \o StringifyMembers(fields, i + 1, FALSE)

StringifyElements(elems, i) ==
    IF i > Len(elems) THEN <<>>
    ELSE (IF i = 1 THEN <<>> ELSE <<Tok(",")>>)
         \o JsonStringify(elems[i]) \o StringifyElements(elems, i + 1)

RECURSIVE ParseValue(_, _), ParseMembers(_, _, _), ParseElements(_, _, _)
\* JSON.parse: the value that starts at token i, and the index after it
ParseValue(toks, i) ==
    CASE toks[i].k = "null" -> [val |-> Null, next |-> i + 1]
      [] toks[i].k = "true" -> [val |-> Bool(TRUE), next |-> i + 1]
      [] toks[i].k = "false" -> [val |-> Bool(FALSE), next |-> i + 1]
      [] toks[i].k = "num" -> [val |-> Num(toks[i].v), next |-> i + 1]
      [] toks[i].k = "str" -> [val |-> Str(toks[i].v), next |-> i + 1]
      [] toks[i].k = "[" ->
            IF toks[i + 1].k = "]" THEN [val |-> Arr(<<>>), next |-> i + 2]
            ELSE ParseElements(toks, i + 1, <<>>)
      [] toks[i].k = "{" ->
            IF toks[i + 1].k = "}" THEN [val |-> Obj(NoFields), next |-> i + 2]
            ELSE ParseMembers(toks, i + 1, NoFields)

ParseMembers(toks, i, fields) ==
    LET member == ParseValue(toks, i + 2)
        more == (toks[i].v :> member.val) @@ fields
    IN  IF toks[member.next].k = ","
        THEN ParseMembers(toks, member.next + 1, more)
        ELSE [val |-> Obj(more), next |-> member.next + 1]

ParseElements(toks, i, elems) ==
    LET elem == ParseValue(toks, i)
    IN  IF toks[elem.next].k = ","
        THEN ParseElements(toks, elem.next + 1, Append(elems, elem.val))
        ELSE [val |-> Arr(Append(elems, elem.val)), next |-> elem.next + 1]

\* response.json() of a response whose text is toks
JsonParse(toks) == ParseValue(toks, 1).val

\* requestOptions.body of a POST: the text, or no body (<<>>) for a falsy options.body
RequestBody(body) == IF Truthy(body) THEN JsonStringify(body) ELSE <<>>

\* mutant of HasInBandErrors: the length of data.errors is not looked at
HasInBandErrorsEmptyToo(data) ==
    /\ data.t = "object"
    /\ "errors" \in DOMAIN data.v
    /\ data.v["errors"].t = "array"

\* data && data.errors && data.errors.length > 0
HasInBandErrors(data) ==
    /\ data.t = "object"
    /\ "errors" \in DOMAIN data.v
    /\ data.v["errors"].t = "array"
    /\ Len(data.v["errors"].v) > 0

\* what _parseResponse makes of the response that echoes the request's body
EchoBody(r) ==
    IF RequestBody(r.body) = <<>> THEN "malformed"
    ELSE IF HasInBandErrors(JsonParse(RequestBody(r.body))) THEN "errors"
    ELSE "object"

\* the data request() resolves with after an echo
ResolvedData(r) == JsonParse(RequestBody(r.body))

\* post(endpoint, data): request(POST, endpoint, { body: data })
Post(body) ==
    /\ requestCounter = 0
    /\ AcquireL
    /\ requestCounter' = requestCounter + 1
    /\ req' = Append(req, [NewRequest(calls'[Len(calls')].state = "granted",
                                       ~(Truthy(body) /\ Throws(body)), "none")
                            EXCEPT !.body = body])
    /\ lastOp' = Step
    /\ UNCHANGED <<now, config, activeRequests, sendLog>>

\* the transport answers 200 with content-type application/json and the
\* text it was sent
Echo(id) ==
    /\ id \in DOMAIN req
    /\ Respond(id, 200, NoHeader, EchoBody(req[id]))

NextRoundTrip ==
    \/ TickOfClient
    \/ Advance
    \/ \E body \in BodyValues : Post(body)
    \/ AttemptStart(1)
    \/ Echo(1)
    \/ BackoffWake(1)

SpecRoundTrip == InitRetry /\ [][NextRoundTrip]_vars

\* C32: every body passed to post() is serialized into the transport call,
\* and once the transport has echoed it with an ok status the request is
\* resolved with a value equal to the body.
C32_RoundTrip ==
    \A id \in DOMAIN req :
        LET r == req[id]
        IN  /\ r.sends >= 1 => RequestBody(r.body) # <<>>
            /\ Len(Answers(r)) >= 1 =>
                    /\ r.pc = "resolved"
                    /\ ResolvedData(r) = r.body

RECURSIVE JsonData(_)
\* plain JSON data: null, booleans, numbers, strings, and arrays and objects
\* of plain JSON data
JsonData(val) ==
    CASE val.t \in {"null", "boolean", "number", "string"} -> TRUE
      [] val.t = "array" -> \A i \in DOMAIN val.v : JsonData(val.v[i])
      [] val.t = "object" -> \A key \in DOMAIN val.v : JsonData(val.v[key])
      [] OTHER -> FALSE

\* an object with a non-empty errors member
CarriesErrors(val) ==
    /\ val.t = "object"
    /\ "errors" \in DOMAIN val.v
    /\ val.v["errors"] # Arr(<<>>)

\* C32 amended: the round trip holds for the bodies that are plain JSON data,
\* are not falsy and carry no non-empty errors member.
C32_RoundTripOfJsonData ==
    \A id \in DOMAIN req :
        LET r == req[id]
        IN  (JsonData(r.body) /\ Truthy(r.body) /\ ~CarriesErrors(r.body)) =>
                /\ r.sends >= 1 => RequestBody(r.body) # <<>>
                /\ Len(Answers(r)) >= 1 =>
                        /\ r.pc = "resolved"
                        /\ ResolvedData(r) = r.body

\* a body with a title and an empty errors list has been echoed and recovered
C32_Witness ==
    \E id \in DOMAIN req :
        /\ req[id].body = Obj(("title" :> Str("a")) @@ ("errors" :> Arr(<<>>)))
        /\ req[id].hist = <<Answer("response", 200, NoHeader, "object")>>
        /\ req[id].pc = "resolved"
        /\ ResolvedData(req[id]) = req[id].body

\* ---- claims about the 429 loop ------------------------------------------------

\* every attempt of r so far was answered 429
Only429(r) ==
    /\ r.sends >= 1
    /\ \A i \in DOMAIN r.hist :
            IsAnswer(r.hist[i]) => (r.hist[i].k = "response" /\ r.hist[i].status = 429)

\* the retry-after duration of a 429 response received at Date.now() = now
RetryAfterOf(h) ==
    CASE h.kind = "seconds" -> h.v * 1000
      [] h.kind = "date" -> IF h.v > now THEN h.v - now ELSE 0
      [] OTHER -> config.retryDelay

\* C33: while every attempt is answered 429 the request makes at most
\* maxRetries+1 sends and never sleeps a backoff; a 429 answer that is not
\* the last permitted one is followed by a sleep of its retry-after
\* duration, the answer to send maxRetries+1 by no sleep: the request then
\* rejects with an ItchioRateLimitError whose retryAfter is that duration.
C33_Always429 ==
    /\ [](\A id \in DOMAIN req :
            LET r == req[id]
                n == Len(Answers(r))
            IN  Only429(r) =>
                    /\ n <= config.maxRetries + 1
                    /\ r.sends \in {n, n + 1}
                    /\ BackoffSleeps(r) = <<>>
                    /\ Len(Sleeps(r)) = Min(n, config.maxRetries)
                    /\ r.retryDelay = config.retryDelay
                    /\ n = config.maxRetries + 1 =>
                            /\ r.pc = "rejected"
                            /\ r.sends = config.maxRetries + 1
                            /\ r.result = "ItchioRateLimitError"
                    /\ n <= config.maxRetries => r.pc \in {"sending", "sleep429"})
    /\ [][\A id \in DOMAIN req :
            LET r == req[id]
                n == Len(r.hist)
            IN ( /\ Len(req'[id].hist) > n
                 /\ req'[id].hist[n + 1].k = "response"
                 /\ Only429(req'[id]) ) =>
                    LET ra == RetryAfterOf(req'[id].hist[n + 1].header)
                    IN  IF Len(Answers(r)) < config.maxRetries
                        THEN /\ req'[id].hist = r.hist \o <<req'[id].hist[n + 1],
                                                            Slept("sleep429", ra)>>
                             /\ req'[id].pc = "sleep429"
                             /\ req'[id].wakeAt = now + ra
                        ELSE /\ req'[id].hist = Append(r.hist, req'[id].hist[n + 1])
                             /\ req'[id].pc = "rejected"
                             /\ req'[id].lastError = RateLimitError
                             /\ req'[id].result = "ItchioRateLimitError"
                             /\ req'[id].retryAfter = ra]_vars

\* three sends, all answered 429 with different retry-after headers; the
\* request has slept 1000 ms and retryDelay and is rejected
C33_Witness ==
    \E id \in DOMAIN req :
        /\ config.maxRetries = 2
        /\ req[id].hist = << Answer("response", 429, SecondsHeader(1), "object"),
                             Slept("sleep429", 1000),
                             Answer("response", 429, NoHeader, "object"),
                             Slept("sleep429", config.retryDelay),
                             Answer("response", 429, SecondsHeader(1), "object") >>
        /\ req[id].pc = "rejected"
        /\ req[id].sends = 3
        /\ req[id].result = "ItchioRateLimitError"
        /\ req[id].retryAfter = 1000

\* ---- claims about the token count and the statistics ---------------------------

\* the calls that are granted by this step: an acquire() granted at once or a
\* waiter whose timer fires
GrantedNow ==
    {i \in DOMAIN calls' :
        /\ calls'[i].state = "granted"
        /\ i \in DOMAIN calls => calls[i].state = "waiting"}

\* this step grants a token
IsGrantStep == GrantedNow # {} \/ lastOp' = Op("tryAcquire", 0, "true")

\* C34: a step that grants a token (immediate acquire, successful tryAcquire,
\* fired waiter timer) leaves tokens at the count refilled for the elapsed
\* time minus exactly 1; the refill itself never lowers the count, and no
\* other step (failed tryAcquire, isThrottling, getStats, getTimeUntilRefill,
\* reset, the passing of time) lowers it.
C34_TokensLoweredByGrantsOnly ==
    [][ LET t == Min(Full, tokens + (now - lastRefill) * maxTokens)
        IN  /\ t >= tokens
            /\ IsGrantStep => tokens' = t - One /\ Cardinality(GrantedNow) <= 1
            /\ ~IsGrantStep => tokens' >= tokens ]_vars

\* a refused tryAcquire() after time has passed: tokens has grown by the refill
C34_Witness ==
    /\ lastOp = Op("tryAcquire", 0, "false")
    /\ lastRefill = now
    /\ now > 0
    /\ tokens > 0
    /\ tokens < One
    /\ stats.totalRequests > 0

\* the acquire() calls invoked since construction or the last reset() that
\* have been granted
GrantedSinceReset == {i \in DOMAIN calls : i > epochStart /\ calls[i].state = "granted"}

\* C35: the grants made since construction or the last reset() at t0 are at
\* most capacity + floor((t - t0) * capacity / windowMs).  The acquire()
\* grants alone are compared with the bound for t0 = 0, the largest the
\* claim allows in any state.
C35_TokenConservation ==
    Cardinality(GrantedSinceReset) <= maxTokens + (now * maxTokens) \div windowMs

\* ---- liveness of request() -----------------------------------------------------
\* the transport settles the pending fetch() of request id: it returns a
\* response, throws, or is aborted by the attempt's timeout
Transport(id) ==
    \/ \E status \in Statuses : Response(id, status)
    \/ NetworkFailure(id)
    \/ TimeoutFire(id)

\* a request() is suspended in rateLimiter.acquire()
SomeoneWaits == \E id \in DOMAIN req : req[id].pc = "acquiring"

\* the callers' calls made while a request waits for a limiter token
CancelRequestWhileWaiting(id) == SomeoneWaits /\ CancelRequest(id)
CancelAllRequestsWhileWaiting == SomeoneWaits /\ CancelAllRequests
ResetRateLimiterWhileWaiting == SomeoneWaits /\ ResetRateLimiter

\* two requests of one client, its callers also cancelling and resetting the
\* limiter while a request waits for a token; time moves from one timer
\* deadline to the next
NextLive ==
    \/ Advance
    \/ Request
    \/ \E id \in RequestIds : WaiterGrant(id)
    \/ \E id \in RequestIds : AttemptStart(id)
    \/ \E id \in RequestIds : Transport(id)
    \/ \E id \in RequestIds : AbortSettle(id)
    \/ \E id \in RequestIds : Sleep429Wake(id)
    \/ \E id \in RequestIds : BackoffWake(id)
    \/ \E id \in RequestIds : CancelRequestWhileWaiting(id)
    \/ CancelAllRequestsWhileWaiting
    \/ ResetRateLimiterWhileWaiting

\* time advances, due timers fire, runnable continuations run and every
\* transport call settles; the callers' own calls are under no obligation
FairLive ==
    /\ WF_vars(Advance)
    /\ \A id \in RequestIds :
            /\ WF_vars(WaiterGrant(id))
            /\ WF_vars(AttemptStart(id))
            /\ WF_vars(Transport(id))
            /\ WF_vars(AbortSettle(id))
            /\ WF_vars(Sleep429Wake(id))
            /\ WF_vars(BackoffWake(id))

SpecLive == InitOfClient /\ [][NextLive]_vars /\ FairLive

\* request id has resolved or rejected
Settled(id) == id \in DOMAIN req /\ req[id].pc \in {"resolved", "rejected"}

\* C36: every request() call eventually settles.
C36_EveryRequestSettles ==
    \A id \in RequestIds : [](id \in DOMAIN req => <>Settled(id))

\* C37: what getStats() would return is within range in every state:
\* 0 <= availableTokens <= maxTokens and 0 <= utilizationRate <= 100.
C37_StatsInRange ==
    /\ 0 <= StatsSnapshot.availableTokens
    /\ StatsSnapshot.availableTokens <= maxTokens
    /\ 0 <= StatsSnapshot.utilizationRate.num
    /\ StatsSnapshot.utilizationRate.num <= 100 * StatsSnapshot.utilizationRate.den

\* C38: the queue holds, each once, exactly the timeout ids of the acquire()
\* calls that are suspended with a pending timer: those still waiting that no
\* reset() has cancelled; the reported queueLength is their number.
C38_QueueIsArmedWaiters ==
    /\ InQueue(queue) = armed
    /\ Len(queue) = Cardinality(armed)
    /\ StatsSnapshot.queueLength = Cardinality(armed)
    /\ armed = {i \in DOMAIN calls : calls[i].state = "waiting"} \ preReset

\* one waiter's timer has fired while another is still queued, after a
\* reset() had cancelled an earlier one
C38_Witness ==
    /\ Len(queue) = 1
    /\ preReset # {}
    /\ \E i \in DOMAIN calls :
            i > epochStart /\ calls[i].state = "granted" /\ calls[i].grantedAt > calls[i].at

\* C39: a step that grants a token adds 1 to totalRequests, a tryAcquire()
\* that returns false adds 1 to rejectedRequests and leaves totalRequests
\* and the queue alone, reset() zeroes both, and no other step changes
\* either: the counters are the grants and refusals since construction or
\* the last reset().
C39_StatsCountGrants ==
    /\ [](lastOp.op = "init" => stats = ZeroStats)
    /\ [][ CASE lastOp'.op = "reset" ->
                    stats'.totalRequests = 0 /\ stats'.rejectedRequests = 0
              [] IsGrantStep ->
                    /\ stats'.totalRequests = stats.totalRequests + 1
                    /\ stats'.rejectedRequests = stats.rejectedRequests
              [] lastOp' = Op("tryAcquire", 0, "false") ->
                    /\ stats'.rejectedRequests = stats.rejectedRequests + 1
                    /\ stats'.totalRequests = stats.totalRequests
                    /\ queue' = queue
              [] OTHER ->
                    /\ stats'.totalRequests = stats.totalRequests
                    /\ stats'.rejectedRequests = stats.rejectedRequests ]_vars

\* grants of all three kinds and a refusal counted since the last reset()
C39_Witness ==
    /\ epochStart > 0
    /\ stats.totalRequests = 3
    /\ stats.rejectedRequests = 1
    /\ Cardinality(GrantedSinceReset) = 2
    /\ \E i \in GrantedSinceReset : calls[i].grantedAt > calls[i].at

\* ---- claims about the retry decision -------------------------------------------

====
